---- MODULE Spec2Model ----
(***************************************************************************)
(* rfetch: a system-information fetch utility (src/src/main.rs,            *)
(* src/src/helpers.rs).                                                    *)
(*                                                                         *)
(* Strings are sequences of one-character strings, so that len, lines,     *)
(* trim, starts_with, parse and concatenation are computed as the code     *)
(* computes them.  All modelled text is ASCII, hence a string's byte       *)
(* length (str::len) is the length of its sequence.                        *)
(*                                                                         *)
(* A usize value is represented by its signed residue modulo 2^64: a       *)
(* residue r < 0 stands for 2^64 + r.  Every usize of the model is within  *)
(* 2^31 of 0 or of 2^64, so the residue arithmetic below is exact.         *)
(***************************************************************************)
EXTENDS Integers, Sequences, FiniteSets, TLC

VARIABLES
    args,               \* env::args(): program name, then the arguments
    pc,                 \* position of main
    iter,               \* index in args of the next argument iter.next() yields
    ascii_art,          \* main's ascii_art
    spacing,            \* main's spacing: u8
    os_name,            \* main's os_name
    ansi_color,         \* main's ansi_color
    color_code,         \* main's color_code
    colored_art_lines,  \* main's colored_art_lines: Vec<String>
    sys_info,           \* main's sys_info: Vec<String>
    offset,             \* print_stuff's offset
    stdout,             \* what println! wrote, one entry per println!
    reads,              \* the data sources main has queried so far
    panic_at,           \* the function whose unwrap or arithmetic panicked
    host,               \* the host: which fact sources fail, and /proc/meminfo
    distro              \* the host's distro files, as main found them

vars == <<args, pc, iter, ascii_art, spacing, os_name, ansi_color, color_code,
          colored_art_lines, sys_info, offset, stdout, reads, panic_at, host,
          distro>>

(***************************************************************************)
(* Strings                                                                 *)
(***************************************************************************)
ESC == "\\x1b"

Rep(n, c) == [i \in 1..n |-> c]

Max2(a, b) == IF a >= b THEN a ELSE b

SubStr(s, from, to) == [i \in 1..(to - from + 1) |-> s[from + i - 1]]

\* str::starts_with
starts_with(s, p) == Len(s) >= Len(p) /\ SubStr(s, 1, Len(p)) = p

\* char::is_whitespace, on the characters of the model
IsWhitespace(c) == c \in {" ", "\n", "\t", "\r"}

RECURSIVE TrimStart(_)
TrimStart(s) ==
    IF s # <<>> /\ IsWhitespace(Head(s)) THEN TrimStart(Tail(s)) ELSE s

RECURSIVE TrimEnd(_)
TrimEnd(s) ==
    IF s # <<>> /\ IsWhitespace(s[Len(s)])
    THEN TrimEnd(SubStr(s, 1, Len(s) - 1)) ELSE s

\* str::trim
trim(s) == TrimEnd(TrimStart(s))

RECURSIVE TrimStartMatches(_, _)
TrimStartMatches(s, c) ==
    IF s # <<>> /\ Head(s) = c THEN TrimStartMatches(Tail(s), c) ELSE s

RECURSIVE TrimEndMatches(_, _)
TrimEndMatches(s, c) ==
    IF s # <<>> /\ s[Len(s)] = c
    THEN TrimEndMatches(SubStr(s, 1, Len(s) - 1), c) ELSE s

\* str::trim_matches(c)
trim_matches(s, c) == TrimEndMatches(TrimStartMatches(s, c), c)

\* a line of str::lines without its "\n": a "\r" right before it goes too
StripCR(cur) ==
    IF cur # <<>> /\ cur[Len(cur)] = "\r" THEN SubStr(cur, 1, Len(cur) - 1) ELSE cur

\* str::lines: split at "\n"; a final line ending adds no empty line
lines(s) ==
    LET ends == {i \in 1..Len(s) : s[i] = "\n"}
                \cup (IF s # <<>> /\ s[Len(s)] # "\n" THEN {Len(s) + 1} ELSE {})
        end_of(k) == CHOOSE e \in ends : Cardinality({x \in ends : x < e}) = k - 1
        start_of(k) == IF k = 1 THEN 1 ELSE end_of(k - 1) + 1
        piece(k) == SubStr(s, start_of(k), end_of(k) - 1)
    IN  [k \in 1..Cardinality(ends) |->
            IF end_of(k) <= Len(s) THEN StripCR(piece(k)) ELSE piece(k)]

Digits == <<"0", "1", "2", "3", "4", "5", "6", "7", "8", "9">>

IsDigit(c) == \E d \in 1..10 : Digits[d] = c

DigitVal(c) == (CHOOSE d \in 1..10 : Digits[d] = c) - 1

\* Display of an unsigned integer
RECURSIVE Dec(_)
Dec(n) == IF n < 10 THEN <<Digits[n + 1]>> ELSE Dec(n \div 10) \o <<Digits[(n % 10) + 1]>>

(***************************************************************************)
(* usize arithmetic on residues                                            *)
(***************************************************************************)
\* a < b as unsigned values
ULess(a, b) == (a >= 0 /\ b < 0) \/ ((a < 0) = (b < 0) /\ a < b)

\* a - b wraps when a < b
SubOverflows(a, b) == ULess(a, b)

\* a + b, b a small natural, wraps when it carries out of 64 bits
AddOverflows(a, b) == a < 0 /\ a + b >= 0

\* Iterator::max of usize values, None on an empty iterator
UMaxOr(vals, dflt) ==
    IF vals = {} THEN dflt
    ELSE CHOOSE m \in vals : \A v \in vals : ~ULess(m, v)

\* usize::saturating_sub
saturating_sub(a, b) == IF ULess(a, b) THEN 0 ELSE a - b

(***************************************************************************)
(* Program constants                                                       *)
(***************************************************************************)
RESET_CODE == <<ESC, "[", "0", "m">>

\* CARGO_PKG_VERSION: fixed at build time, outside the source files
VERSION == <<"0", ".", "1", ".", "0">>

U8_MAX == 255

DEFAULT_SPACING == 3

OFFSET_GAP == 5

NL == <<"\n">>

ArtRow(indent, width) == Rep(indent, " ") \o Rep(width, "#") \o NL

\* the built-in art: a raw string of 13 lines, each ended by a line feed
DEFAULT_ART ==
    ArtRow(8, 5) \o ArtRow(7, 7)
    \o Rep(7, " ") \o <<"#", "#", "O", "#", "O", "#", "#">> \o NL
    \o ArtRow(7, 7) \o ArtRow(5, 11) \o ArtRow(4, 13) \o ArtRow(3, 15)
    \o ArtRow(3, 16) \o ArtRow(2, 17) \o ArtRow(2, 17) \o ArtRow(0, 21)
    \o ArtRow(0, 21) \o ArtRow(2, 17)

HELP_LONG == <<"-","-","h","e","l","p">>
HELP_SHORT == <<"-","h">>
VERSION_LONG == <<"-","-","v","e","r","s","i","o","n">>
VERSION_SHORT == <<"-","v">>
CONFIG == <<"-","-","c","o","n","f","i","g">>
SPACING == <<"-","-","s","p","a","c","i","n","g">>
COLOR == <<"-","-","c","o","l","o","r">>
PRETTY_NAME_KEY == <<"P","R","E","T","T","Y","_","N","A","M","E","=">>
ANSI_COLOR_KEY == <<"A","N","S","I","_","C","O","L","O","R","=">>
UNKNOWN_OS == <<"U","n","k","n","o","w","n"," ","O","S">>
DEFAULT_COLOR == <<"0",";","3","7">>
UNKNOWN == <<"u","n","k","n","o","w","n">>
UNKNOWN_CPU == <<"U","n","k","n","o","w","n"," ","C","P","U">>
MEMTOTAL == <<"M","e","m","T","o","t","a","l",":">>
MEMAVAILABLE == <<"M","e","m","A","v","a","i","l","a","b","l","e",":">>
SWAPTOTAL == <<"S","w","a","p","T","o","t","a","l",":">>
SWAPFREE == <<"S","w","a","p","F","r","e","e",":">>
S_UPTIME == <<"U","p","t","i","m","e",":"," ">>
S_HOURS == <<" ","h","o","u","r","s",","," ">>
S_MINS == <<" ","m","i","n","s">>
S_KERNEL == <<"K","E","R","N","E","L",":"," ">>
S_DISK_UNKNOWN == <<"D","i","s","k"," ","u","s","a","g","e",":"," ","u","n","k","n","o","w","n">>
S_DISK == <<"D","i","s","k",":"," ">>
S_GB == <<"G","B","/">>
S_GB_USED == <<"G","B"," ","u","s","e","d"," ","(","/",")">>
S_MEMORY == <<"M","e","m","o","r","y",":"," ">>
S_SWAP == <<"S","w","a","p",":"," ">>
S_OS == <<"O","S",":"," ">>
S_CPU == <<"C","P","U",":"," ">>
S_TERMINAL == <<"T","e","r","m","i","n","a","l",":"," ">>
S_SHELL == <<"S","h","e","l","l",":"," ">>
S_WM == <<"W","M",":"," ">>
S_LOCAL_IP == <<"L","o","c","a","l"," ","I","P",":"," ">>
S_RFETCH == <<"r","f","e","t","c","h"," ">>
\* the usage text after its first line (its dash between 0 and 255 written "-")
HELP_REST == <<"\n","\n","U","S","A","G","E",":","\n"," "," "," "," ","r","f","e","t","c","h"," ","[","O","P","T","I","O","N","S","]","\n","\n","O","P","T","I","O","N","S"," ","(","o","p","t","i","o","n","a","l",")",":","\n"," "," "," "," ","-","-","c","o","n","f","i","g"," ","<","F","I","L","E",">"," "," "," "," "," ","p","a","t","h"," ","t","o"," ","t","e","x","t"," ","f","i","l","e"," ","c","o","n","t","a","i","n","i","n","g"," ","a","s","c","i","i"," ","a","r","t","\n"," "," "," "," ","-","-","s","p","a","c","i","n","g"," ","<","N",">"," "," "," "," "," "," "," ","s","p","a","c","e","s"," ","b","e","f","o","r","e"," ","A","S","C","I","I"," ","a","r","t"," ","(","0","-","2","5","5",","," ","d","e","f","a","u","l","t","=","3",")","\n"," "," "," "," ","-","-","c","o","l","o","r"," ","<","A","N","S","I",">"," "," "," "," "," "," ","(","e",".","g","."," ","3","6",","," ","1",";","3","6",","," ","3","8",";","5",";","2","0","5",")","\n"," "," "," "," ","-","h",","," ","-","-","h","e","l","p"," "," "," "," "," "," "," "," "," "," ","p","r","i","n","t"," ","h","e","l","p","\n"," "," "," "," ","-","v",","," ","-","-","v","e","r","s","i","o","n"," "," "," "," "," "," "," ","p","r","i","n","t"," ","v","e","r","s","i","o","n">>

\* what help_menu prints
help_menu == S_RFETCH \o VERSION \o HELP_REST

\* what the version branch of main prints
version_line == S_RFETCH \o VERSION

(***************************************************************************)
(* Parsing                                                                 *)
(***************************************************************************)
RECURSIVE DigitsValue(_, _)
DigitsValue(s, acc) ==
    IF s = <<>> THEN acc ELSE DigitsValue(Tail(s), acc * 10 + DigitVal(Head(s)))

\* str::parse for an unsigned integer type of maximum maxv: an optional "+",
\* then one or more decimal digits, no other character, the value at most maxv
parse_unsigned(val, maxv) ==
    LET body == IF val # <<>> /\ Head(val) = "+" THEN Tail(val) ELSE val
        wellformed == body # <<>> /\ \A i \in 1..Len(body) : IsDigit(body[i])
        \* leading zeros carry no value; more digits than maxv has overflow
        sig == TrimStartMatches(body, "0")
        fits == wellformed /\ Len(sig) <= Len(Dec(maxv)) /\ DigitsValue(sig, 0) <= maxv
    IN  [ok |-> fits, num |-> IF fits THEN DigitsValue(sig, 0) ELSE 0]

\* val.parse::<u8>()
parse_u8(val) == parse_unsigned(val, U8_MAX)

(***************************************************************************)
(* read_os_release                                                         *)
(***************************************************************************)
RECURSIVE os_release_loop(_, _, _)
os_release_loop(ls, i, st) ==
    IF i > Len(ls) \/ (st.found_name /\ st.found_color) THEN st
    ELSE LET line == ls[i] IN
         IF ~st.found_name /\ starts_with(line, PRETTY_NAME_KEY)
         THEN os_release_loop(ls, i + 1,
                  [st EXCEPT !.os_name =
                       trim_matches(SubStr(line, Len(PRETTY_NAME_KEY) + 1, Len(line)), "\""),
                             !.found_name = TRUE])
         ELSE IF ~st.found_color /\ starts_with(line, ANSI_COLOR_KEY)
         THEN os_release_loop(ls, i + 1,
                  [st EXCEPT !.ansi_color =
                       trim_matches(SubStr(line, Len(ANSI_COLOR_KEY) + 1, Len(line)), "\""),
                             !.found_color = TRUE])
         ELSE os_release_loop(ls, i + 1, st)

\* read_os_release(path), file the file at path: [exists, opens, text]
read_os_release(file) ==
    LET st0 == [os_name |-> UNKNOWN_OS, ansi_color |-> DEFAULT_COLOR,
                found_name |-> FALSE, found_color |-> FALSE]
        st == IF file.opens THEN os_release_loop(lines(file.text), 1, st0) ELSE st0
    IN  [os_name |-> st.os_name, ansi_color |-> st.ansi_color]

\* main's choice between /etc/os-release and /usr/lib/os-release
resolve_os_release(etc, usr) ==
    IF etc.exists THEN read_os_release(etc)
    ELSE IF usr.exists THEN read_os_release(usr)
    ELSE [os_name |-> UNKNOWN_OS, ansi_color |-> DEFAULT_COLOR]

(***************************************************************************)
(* color_ascii_art                                                         *)
(***************************************************************************)
\* decorate_line without the reset code
decorate_line_no_reset(line, color, s) == Rep(s, " ") \o color \o line

decorate_line(line, color, s) == Rep(s, " ") \o color \o line \o RESET_CODE

color_ascii_art(art, color, s) ==
    LET raw == lines(art) IN [i \in 1..Len(raw) |-> decorate_line(raw[i], color, s)]

\* format!("\x1b[{}m", ansi_color)
make_color_code(color) == <<ESC, "[">> \o color \o <<"m">>

(***************************************************************************)
(* print_stuff                                                             *)
(***************************************************************************)
\* line.len() - spacing as usize
visible_len(line, s) == Len(line) - s

\* max_ascii_len looking at the first line only
max_ascii_len_first(ascii_lines, s) ==
    IF ascii_lines = <<>> THEN 0 ELSE visible_len(ascii_lines[1], s)

max_ascii_len(ascii_lines, s) ==
    UMaxOr({visible_len(ascii_lines[i], s) : i \in 1..Len(ascii_lines)}, 0)

\* print_offset without the spacing
print_offset_no_spacing(ascii_lines, s) == max_ascii_len(ascii_lines, s) + OFFSET_GAP

print_offset(ascii_lines, s) == max_ascii_len(ascii_lines, s) + OFFSET_GAP + s

\* an arithmetic overflow of print_stuff: a panic in a build with overflow
\* checks, a wrapped value in a build without
print_overflows(ascii_lines, s) ==
    \/ \E i \in 1..Len(ascii_lines) : SubOverflows(Len(ascii_lines[i]), s)
    \/ AddOverflows(max_ascii_len(ascii_lines, s), OFFSET_GAP)
    \/ AddOverflows(max_ascii_len(ascii_lines, s) + OFFSET_GAP, s)

\* max_lines counting the art lines only
max_lines_art_only(ascii_lines, info) == Len(ascii_lines)

max_lines(ascii_lines, info) == Max2(Len(ascii_lines), Len(info))

\* rows are numbered from 1 here, from 0 in the code
art_line_at(ascii_lines, i) == IF i <= Len(ascii_lines) THEN ascii_lines[i] ELSE <<>>

info_line_at(info, i) == IF i <= Len(info) THEN info[i] ELSE <<>>

\* pad_len by a distance instead of a saturating subtraction
pad_len_distance(off, art_line) ==
    IF off >= Len(art_line) THEN off - Len(art_line) ELSE Len(art_line) - off

pad_len(off, art_line) == saturating_sub(off, Len(art_line))

print_row(ascii_lines, info, off, i) ==
    LET art_line == art_line_at(ascii_lines, i) IN
    art_line \o Rep(pad_len(off, art_line), " ") \o info_line_at(info, i)

print_rows(ascii_lines, info, s) ==
    LET off == print_offset(ascii_lines, s) IN
    [i \in 1..max_lines(ascii_lines, info) |-> print_row(ascii_lines, info, off, i)]

(***************************************************************************)
(* The host.  host.failing names the fact sources whose query fails;        *)
(* host.meminfo is /proc/meminfo: [opens, text].                           *)
(***************************************************************************)
Sources == {"USER", "gethostname", "product_name", "sysinfo", "cpuid", "uname",
            "statvfs", "TERM", "SHELL", "XDG_CURRENT_DESKTOP", "getifaddrs", "lan"}

\* sample values of a host whose queries succeed
HOST_USER == <<"u">>
HOST_HOSTNAME == <<"h", ".", "l", "a", "n">>
HOST_PRODUCT_NAME == <<"p", "c", "\n">>
HOST_UPTIME_SECS == 3725
HOST_CPU_BRAND == <<"c", "p", "u">>
HOST_SYSNAME == <<"L", "i", "n", "u", "x">>
HOST_RELEASE == <<"6", ".", "1">>
HOST_F_FRSIZE == 4096
HOST_F_BLOCKS == 400000
HOST_F_BFREE == 100000
HOST_TERM == <<"x", "t">>
HOST_SHELL == <<"s", "h">>
HOST_XDG == <<"w", "m">>
HOST_LOOPBACK == <<127, 0, 0, 1>>
HOST_LAN_IP == <<10, 0, 0, 2>>

\* env::var(var): Err when the variable is unset
env_var(h, var, value) == [ok |-> var \notin h.failing, value |-> value]

\* evod(var, default)
evod(h, var, value, default) ==
    LET r == env_var(h, var, value) IN IF r.ok THEN r.value ELSE default

\* str::split('.').next(): the text before the first "."
RECURSIVE first_label(_)
first_label(s) ==
    IF s = <<>> \/ Head(s) = "." THEN <<>> ELSE <<Head(s)>> \o first_label(Tail(s))

get_user(h) ==
    LET username == evod(h, "USER", HOST_USER, UNKNOWN)
        hostname == IF "gethostname" \notin h.failing
                    THEN first_label(HOST_HOSTNAME) ELSE UNKNOWN
        model == trim(IF "product_name" \notin h.failing
                      THEN HOST_PRODUCT_NAME ELSE UNKNOWN)
    IN  username \o <<"@">> \o hostname \o <<"@">> \o model

get_cpu(h) == IF "cpuid" \notin h.failing THEN HOST_CPU_BRAND ELSE UNKNOWN_CPU

get_kernel(h) ==
    IF "uname" \notin h.failing
    THEN S_KERNEL \o HOST_SYSNAME \o <<" ">> \o HOST_RELEASE
    ELSE S_KERNEL \o UNKNOWN

get_uptime(h) ==
    IF "sysinfo" \notin h.failing
    THEN LET hours == HOST_UPTIME_SECS \div 3600
             minutes == (HOST_UPTIME_SECS % 3600) \div 60
         IN  S_UPTIME \o Dec(hours) \o S_HOURS \o Dec(minutes) \o S_MINS
    ELSE S_UPTIME \o UNKNOWN

\* the disk sizes in units of 1024 bytes (f_frsize is a multiple of 1024), so
\* that a realistic disk fits the model's integers
get_root_disk_usage(h) ==
    IF "statvfs" \in h.failing THEN S_DISK_UNKNOWN
    ELSE LET total_k == HOST_F_BLOCKS * (HOST_F_FRSIZE \div 1024)
             free_k == HOST_F_BFREE * (HOST_F_FRSIZE \div 1024)
             used_k == total_k - free_k
             total_gb == (total_k \div 1024) \div 1024
             used_gb == (used_k \div 1024) \div 1024
         IN  S_DISK \o Dec(used_gb) \o S_GB \o Dec(total_gb) \o S_GB_USED

\* Ipv4Addr's Display
ip_text(ip) ==
    Dec(ip[1]) \o <<".">> \o Dec(ip[2]) \o <<".">> \o Dec(ip[3]) \o <<".">> \o Dec(ip[4])

\* the AF_INET addresses getifaddrs lists, in order
ifaddrs(h) == IF "lan" \in h.failing THEN <<HOST_LOOPBACK>> ELSE <<HOST_LOOPBACK, HOST_LAN_IP>>

get_local_ip(h) ==
    IF "getifaddrs" \in h.failing THEN S_LOCAL_IP \o UNKNOWN
    ELSE LET ifs == ifaddrs(h)
             hits == {i \in 1..Len(ifs) : ifs[i] # HOST_LOOPBACK}
         IN  IF hits = {} THEN S_LOCAL_IP \o UNKNOWN
             ELSE S_LOCAL_IP \o ip_text(ifs[CHOOSE i \in hits : \A j \in hits : i <= j])

\* make_separator(len, color)
make_separator(len, color) == color \o Rep(len, "-") \o RESET_CODE

(***************************************************************************)
(* /proc/meminfo                                                           *)
(***************************************************************************)
RECURSIVE split_from(_, _, _)
split_from(s, i, cur) ==
    IF i > Len(s) THEN (IF cur = <<>> THEN <<>> ELSE <<cur>>)
    ELSE IF IsWhitespace(s[i])
         THEN (IF cur = <<>> THEN <<>> ELSE <<cur>>) \o split_from(s, i + 1, <<>>)
    ELSE split_from(s, i + 1, Append(cur, s[i]))

\* str::split_whitespace
split_whitespace(s) == split_from(s, 1, <<>>)

\* the largest value a statistic of the model takes; u64's own maximum is
\* beyond the model's integers
STAT_MAX == 99999999

\* one (line, field) step of read_meminfo_fields
meminfo_field(r, line, fields, i) ==
    IF r.panicked \/ ~starts_with(line, fields[i]) THEN r
    ELSE LET toks == split_whitespace(line) IN
         IF Len(toks) < 2 THEN [r EXCEPT !.panicked = TRUE]
         ELSE LET n == parse_unsigned(toks[2], STAT_MAX) IN
              IF ~n.ok THEN [r EXCEPT !.panicked = TRUE]
              ELSE [r EXCEPT !.values[i] = n.num]

RECURSIVE meminfo_fields_of_line(_, _, _, _)
meminfo_fields_of_line(r, line, fields, i) ==
    IF i > Len(fields) THEN r
    ELSE meminfo_fields_of_line(meminfo_field(r, line, fields, i), line, fields, i + 1)

RECURSIVE meminfo_loop(_, _, _, _)
meminfo_loop(r, ls, fields, k) ==
    IF k > Len(ls) THEN r
    ELSE meminfo_loop(meminfo_fields_of_line(r, ls[k], fields, 1), ls, fields, k + 1)

\* read_meminfo_fields(fields): every unwrap of it is a panic
read_meminfo_fields(h, fields) ==
    LET r0 == [panicked |-> FALSE, values |-> [i \in 1..Len(fields) |-> 0]] IN
    IF ~h.meminfo.opens THEN [r0 EXCEPT !.panicked = TRUE]
    ELSE meminfo_loop(r0, lines(h.meminfo.text), fields, 1)

\* n / unit to two decimals, as {:.2} prints the f64 (exact here: unit is a
\* power of two): rounded to the nearest hundredth, a tie to the even one
fixed2(n, unit) ==
    LET q == n \div unit
        r == n % unit
        f == (r * 100) \div unit
        rest == (r * 100) % unit
        up == rest * 2 > unit \/ (rest * 2 = unit /\ f % 2 = 1)
        c == q * 100 + f + (IF up THEN 1 ELSE 0)
        frac == c % 100
    IN  Dec(c \div 100) \o <<".">> \o (IF frac < 10 THEN <<"0">> ELSE <<>>) \o Dec(frac)

\* format_bytes(kib * 1024): both calls pass a multiple of 1024
format_bytes_kib(kib) ==
    IF kib >= 1073741824 THEN fixed2(kib, 1073741824) \o <<" ", "T", "i", "B">>
    ELSE IF kib >= 1048576 THEN fixed2(kib, 1048576) \o <<" ", "G", "i", "B">>
    ELSE IF kib >= 1024 THEN fixed2(kib, 1024) \o <<" ", "M", "i", "B">>
    ELSE IF kib >= 1 THEN fixed2(kib, 1) \o <<" ", "K", "i", "B">>
    ELSE <<"0", " ", "B">>

usage_line(label, h, fields) ==
    LET r == read_meminfo_fields(h, fields)
        total == r.values[1]
        rest == r.values[2]
        used == IF total >= rest THEN total - rest ELSE 0
    IN  [panicked |-> r.panicked,
         text |-> IF r.panicked THEN <<>>
                  ELSE label \o format_bytes_kib(used) \o <<"/">> \o format_bytes_kib(total)]

memory_usage(h) == usage_line(S_MEMORY, h, <<MEMTOTAL, MEMAVAILABLE>>)

swap_usage(h) == usage_line(S_SWAP, h, <<SWAPTOTAL, SWAPFREE>>)

\* main's vec![...]: the facts in order; a panic of memory_usage or swap_usage
\* ends the run before anything is printed
collect_info(h, name, color) ==
    LET separator == make_separator(Len(get_user(h)), color)
        mem == memory_usage(h)
        swap == swap_usage(h)
    IN  [panicked |-> mem.panicked \/ swap.panicked,
         info |-> << get_user(h), get_uptime(h), separator, S_OS \o name,
                     S_CPU \o get_cpu(h), get_kernel(h), get_root_disk_usage(h),
                     mem.text, swap.text,
                     S_TERMINAL \o evod(h, "TERM", HOST_TERM, UNKNOWN),
                     S_SHELL \o evod(h, "SHELL", HOST_SHELL, UNKNOWN),
                     S_WM \o evod(h, "XDG_CURRENT_DESKTOP", HOST_XDG, UNKNOWN),
                     get_local_ip(h) >>]

(***************************************************************************)
(* Bounds and input sets                                                   *)
(***************************************************************************)
\* arguments after the program name
MaxArgs == 4

\* characters of an art text handed to color_ascii_art
MaxText == 4

\* lines of an info block handed to print_stuff
MaxInfo == 3

\* lines of an art block handed to print_stuff
MaxLines == 2

SeqsUpTo(S, n) == UNION {[1..k -> S] : k \in 0..n}

PROGRAM == <<"r","f","e","t","c","h">>

\* a path at which the host may hold an art file
ART_PATH == <<"f">>

\* a number that is a u8, a color, and the path of no file
NUM_OK == <<"3", "1">>

\* a number beyond u8
NUM_BIG == <<"2", "5", "6">>

ArgTokens == {HELP_SHORT, HELP_LONG, VERSION_SHORT, VERSION_LONG,
              CONFIG, SPACING, COLOR, NUM_OK, NUM_BIG, ART_PATH}

ArgLists == {<<PROGRAM>> \o rest : rest \in SeqsUpTo(ArgTokens, MaxArgs)}

\* the least and the largest spacing
NUM_ZERO == <<"0">>

NUM_MAX == <<"2", "5", "5">>

\* the arguments of the runs that vary the art and the spacing
LayoutTokens == {CONFIG, SPACING, NUM_ZERO, NUM_MAX, ART_PATH}

LayoutArgLists == {<<PROGRAM>> \o rest : rest \in SeqsUpTo(LayoutTokens, MaxArgs)}

NoFile == [exists |-> FALSE, opens |-> FALSE, text |-> <<>>]

LockedFile == [exists |-> TRUE, opens |-> FALSE, text |-> <<>>]

TextFile(text) == [exists |-> TRUE, opens |-> TRUE, text |-> text]

\* distro-identification files
OS_FULL == TextFile(<<"N","A","M","E","=","x","\n">> \o PRETTY_NAME_KEY
                    \o <<"\"","A"," ","B","\"","\n">> \o ANSI_COLOR_KEY
                    \o <<"\"","1",";","3","6","\"","\n">> \o ANSI_COLOR_KEY
                    \o <<"9","\n">>)

OS_NO_COLOR == TextFile(PRETTY_NAME_KEY \o <<"Z","\n">>)

OS_COLOR_FIRST == TextFile(ANSI_COLOR_KEY \o <<"3","2","\n">> \o PRETTY_NAME_KEY
                           \o <<"Z","\n">>)

DistroHosts == { [etc |-> NoFile, usr |-> NoFile],
                 [etc |-> NoFile, usr |-> OS_COLOR_FIRST],
                 [etc |-> OS_FULL, usr |-> OS_COLOR_FIRST],
                 [etc |-> OS_NO_COLOR, usr |-> OS_FULL],
                 [etc |-> LockedFile, usr |-> OS_FULL] }

\* art files: lines shorter than the spacing, an empty line, blank edges
ArtFiles == { TextFile(<<" ","a","b","\n","\n","c","\n">>),
              TextFile(<<"\n"," ","\n">>),
              TextFile(Rep(9, "#") \o <<"\n", "#">>) }

\* what the host may hold at a path
FilesAt(path) == IF path = ART_PATH THEN ArtFiles \cup {NoFile} ELSE {NoFile}

MEMINFO_GOOD ==
    TextFile(MEMTOTAL \o <<" "," ","2","0","4","8"," ","k","B","\n">>
             \o MEMAVAILABLE \o <<" ","5","1","2"," ","k","B","\n">>
             \o SWAPTOTAL \o <<" ","3","0","0","0","0","0","0"," ","k","B","\n">>
             \o SWAPFREE \o <<" ","3","0","0","0","0","0","0"," ","k","B","\n">>)

\* no swap lines: the statistics stay 0
MEMINFO_NO_SWAP == TextFile(MEMTOTAL \o <<" ","9","0","0"," ","k","B","\n">>)

\* a value that is no number
MEMINFO_BAD_VALUE ==
    TextFile(MEMTOTAL \o <<" ","2","0","4","8"," ","k","B","\n">>
             \o SWAPFREE \o <<" ","n","/","a","\n">>)

\* a key with no value after it
MEMINFO_NO_VALUE == TextFile(MEMAVAILABLE \o <<"\n">>)

MeminfoFiles == {MEMINFO_GOOD, MEMINFO_NO_SWAP, MEMINFO_BAD_VALUE, MEMINFO_NO_VALUE,
                 NoFile}

\* fact sources failing at once on a host of the runs that vary the host
MaxFailing == 2

Hosts == [failing : {f \in SUBSET Sources : Cardinality(f) <= MaxFailing},
          meminfo : MeminfoFiles]

\* the host of the runs that vary the arguments
HEALTHY_HOST == [failing |-> {}, meminfo |-> MEMINFO_GOOD]

\* inputs of color_ascii_art and print_stuff called on their own
Texts == SeqsUpTo({"a", "\n"}, MaxText)

ColorCodes == {<<>>, <<"C">>, <<ESC, "[", "0", ";", "3", "7", "m">>}

Spacings == {0, 1, 2, U8_MAX}

InfoBlocks == SeqsUpTo({<<>>, <<"x">>}, MaxInfo)

ArtBlocks == SeqsUpTo({<<>>, <<"a">>, Rep(9, "a")}, MaxLines)

(***************************************************************************)
(* main                                                                    *)
(***************************************************************************)
\* has_help without "-h"
has_help_long_only(a) == \E i \in 1..Len(a) : a[i] = HELP_LONG

has_help(a) == \E i \in 1..Len(a) : a[i] = HELP_LONG \/ a[i] = HELP_SHORT

has_version(a) == \E i \in 1..Len(a) : a[i] = VERSION_LONG \/ a[i] = VERSION_SHORT

\* the locals of main before their declaration is reached
Unassigned ==
    /\ iter = 0
    /\ ascii_art = <<>>
    /\ spacing = 0
    /\ os_name = <<>>
    /\ ansi_color = <<>>
    /\ color_code = <<>>
    /\ colored_art_lines = <<>>
    /\ sys_info = <<>>
    /\ offset = 0
    /\ stdout = <<>>
    /\ reads = {}
    /\ panic_at = "none"
    /\ distro = [etc |-> NoFile, usr |-> NoFile]

Init ==
    /\ args \in ArgLists
    /\ host = HEALTHY_HOST
    /\ pc = "start"
    /\ Unassigned

\* main without arguments, on any host
InitHosts ==
    /\ args = <<PROGRAM>>
    /\ host \in Hosts
    /\ pc = "start"
    /\ Unassigned

\* main over art files and spacings
InitLayout ==
    /\ args \in LayoutArgLists
    /\ host = HEALTHY_HOST
    /\ pc = "start"
    /\ Unassigned

\* color_ascii_art, then print_stuff, on inputs of their own; or print_stuff
\* alone on an art block of any lines
InitUnit ==
    /\ args = <<PROGRAM>>
    /\ host = HEALTHY_HOST
    /\ iter = 0
    /\ os_name = <<>>
    /\ ansi_color = <<>>
    /\ offset = 0
    /\ stdout = <<>>
    /\ reads = {}
    /\ panic_at = "none"
    /\ distro = [etc |-> NoFile, usr |-> NoFile]
    /\ spacing \in Spacings
    /\ sys_info \in InfoBlocks
    /\ \/ /\ pc = "unit"
          /\ ascii_art \in Texts
          /\ color_code \in ColorCodes
          /\ colored_art_lines = <<>>
       \/ /\ pc = "print"
          /\ ascii_art = <<>>
          /\ color_code = <<>>
          /\ colored_art_lines \in ArtBlocks

\* if args.iter().any(--help | -h) { help_menu(); return; }
PrintHelp ==
    /\ pc = "start"
    /\ has_help(args)
    /\ stdout' = Append(stdout, help_menu)
    /\ pc' = "done"
    /\ UNCHANGED <<args, iter, ascii_art, spacing, os_name, ansi_color, color_code,
                   colored_art_lines, sys_info, offset, reads, panic_at, host, distro>>

\* else if args.iter().any(--version | -v) { println!(..); return; }
PrintVersion ==
    /\ pc = "start"
    /\ ~has_help(args)
    /\ has_version(args)
    /\ stdout' = Append(stdout, version_line)
    /\ pc' = "done"
    /\ UNCHANGED <<args, iter, ascii_art, spacing, os_name, ansi_color, color_code,
                   colored_art_lines, sys_info, offset, reads, panic_at, host, distro>>

\* the declarations of ascii_art and spacing, the distro file, args.iter().skip(1)
Setup ==
    /\ pc = "start"
    /\ ~has_help(args)
    /\ ~has_version(args)
    /\ \E d \in DistroHosts :
         LET r == resolve_os_release(d.etc, d.usr) IN
         /\ os_name' = r.os_name
         /\ ansi_color' = r.ansi_color
         /\ distro' = d
    /\ reads' = reads \cup {"os-release"}
    /\ ascii_art' = DEFAULT_ART
    /\ spacing' = DEFAULT_SPACING
    /\ iter' = 2
    /\ pc' = "args"
    /\ UNCHANGED <<args, color_code, colored_art_lines, sys_info, offset, stdout,
                   panic_at, host>>

\* the argument iter.next() yields in the loop head
AtArg(flag) == pc = "args" /\ iter <= Len(args) /\ args[iter] = flag

\* "--config": read_file_trim(path), whose unwrap panics on a failed read
ParseConfig ==
    /\ AtArg(CONFIG)
    /\ IF iter + 1 > Len(args)
       THEN /\ iter' = iter + 1
            /\ UNCHANGED <<ascii_art, reads, pc, panic_at>>
       ELSE \E file \in FilesAt(args[iter + 1]) :
              /\ reads' = reads \cup {"config"}
              /\ IF file.opens
                 THEN /\ ascii_art' = trim(file.text)
                      /\ iter' = iter + 2
                      /\ UNCHANGED <<pc, panic_at>>
                 ELSE /\ pc' = "panicked"
                      /\ panic_at' = "read_file_trim"
                      /\ UNCHANGED <<ascii_art, iter>>
    /\ UNCHANGED <<args, spacing, os_name, ansi_color, color_code, colored_art_lines,
                   sys_info, offset, stdout, host, distro>>

\* spacing_after falling back to the default on a failed parse
spacing_after_reset(old, val) ==
    LET r == parse_u8(val) IN IF r.ok THEN r.num ELSE DEFAULT_SPACING

\* the spacing after "--spacing val"
spacing_after(old, val) ==
    LET r == parse_u8(val) IN IF r.ok THEN r.num ELSE old

\* "--spacing"
ParseSpacing ==
    /\ AtArg(SPACING)
    /\ IF iter + 1 > Len(args)
       THEN /\ iter' = iter + 1
            /\ UNCHANGED spacing
       ELSE /\ spacing' = spacing_after(spacing, args[iter + 1])
            /\ iter' = iter + 2
    /\ UNCHANGED <<args, pc, ascii_art, os_name, ansi_color, color_code,
                   colored_art_lines, sys_info, offset, stdout, reads, panic_at, host,
                   distro>>

\* color_after dropping the user's color
color_after_ignored(old, c) == old

\* the color after "--color c"
color_after(old, c) == c

\* "--color"
ParseColor ==
    /\ AtArg(COLOR)
    /\ IF iter + 1 > Len(args)
       THEN /\ iter' = iter + 1
            /\ UNCHANGED ansi_color
       ELSE /\ ansi_color' = color_after(ansi_color, args[iter + 1])
            /\ iter' = iter + 2
    /\ UNCHANGED <<args, pc, ascii_art, spacing, os_name, color_code,
                   colored_art_lines, sys_info, offset, stdout, reads, panic_at, host,
                   distro>>

\* _ => {}
ParseOther ==
    /\ pc = "args"
    /\ iter <= Len(args)
    /\ args[iter] \notin {CONFIG, SPACING, COLOR}
    /\ iter' = iter + 1
    /\ UNCHANGED <<args, pc, ascii_art, spacing, os_name, ansi_color, color_code,
                   colored_art_lines, sys_info, offset, stdout, reads, panic_at, host,
                   distro>>

\* the loop ends; color_code and colored_art_lines
Decorate ==
    /\ pc = "args"
    /\ iter > Len(args)
    /\ color_code' = make_color_code(ansi_color)
    /\ colored_art_lines' = color_ascii_art(ascii_art, make_color_code(ansi_color), spacing)
    /\ pc' = "collect"
    /\ UNCHANGED <<args, iter, ascii_art, spacing, os_name, ansi_color, sys_info,
                   offset, stdout, reads, panic_at, host, distro>>

\* separator and sys_info
CollectInfo ==
    /\ pc = "collect"
    /\ LET r == collect_info(host, os_name, color_code) IN
       IF r.panicked
       THEN /\ pc' = "panicked"
            /\ panic_at' = "read_meminfo_fields"
            /\ UNCHANGED sys_info
       ELSE /\ sys_info' = r.info
            /\ pc' = "print"
            /\ UNCHANGED panic_at
    /\ reads' = reads \cup {"facts"}
    /\ UNCHANGED <<args, iter, ascii_art, spacing, os_name, ansi_color, color_code,
                   colored_art_lines, offset, stdout, host, distro>>

\* print_stuff(&colored_art_lines, &sys_info, spacing), in a build with
\* (overflow_checks) or without overflow checks
PrintStuff ==
    /\ pc = "print"
    /\ \E overflow_checks \in BOOLEAN :
         IF overflow_checks /\ print_overflows(colored_art_lines, spacing)
         THEN /\ pc' = "panicked"
              /\ panic_at' = "print_stuff"
              /\ UNCHANGED <<offset, stdout>>
         ELSE /\ offset' = print_offset(colored_art_lines, spacing)
              /\ stdout' = stdout \o print_rows(colored_art_lines, sys_info, spacing)
              /\ pc' = "done"
              /\ UNCHANGED panic_at
    /\ UNCHANGED <<args, iter, ascii_art, spacing, os_name, ansi_color, color_code,
                   colored_art_lines, sys_info, reads, host, distro>>

Next ==
    \/ PrintHelp
    \/ PrintVersion
    \/ Setup
    \/ ParseConfig
    \/ ParseSpacing
    \/ ParseColor
    \/ ParseOther
    \/ Decorate
    \/ CollectInfo
    \/ PrintStuff

\* runs of main over argument lists
Spec == Init /\ [][Next]_vars

\* runs of main without arguments over hosts
NextHosts ==
    \/ Setup
    \/ Decorate
    \/ CollectInfo
    \/ PrintStuff

SpecHosts == InitHosts /\ [][NextHosts]_vars

\* runs of main over art files and spacings
NextLayout ==
    \/ Setup
    \/ ParseConfig
    \/ ParseSpacing
    \/ ParseOther
    \/ Decorate
    \/ CollectInfo
    \/ PrintStuff

SpecLayout == InitLayout /\ [][NextLayout]_vars

\* color_ascii_art(&ascii_art, &color_code, spacing) called on its own
UnitDecorate ==
    /\ pc = "unit"
    /\ colored_art_lines' = color_ascii_art(ascii_art, color_code, spacing)
    /\ pc' = "print"
    /\ UNCHANGED <<args, iter, ascii_art, spacing, os_name, ansi_color, color_code,
                   sys_info, offset, stdout, reads, panic_at, host, distro>>

NextUnit ==
    \/ UnitDecorate
    \/ PrintStuff

\* the two functions of the renderer over inputs of their own
SpecUnit == InitUnit /\ [][NextUnit]_vars

(***************************************************************************)
(* Properties                                                              *)
(***************************************************************************)
ArtCount == Len(colored_art_lines)

InfoCount == Len(sys_info)

RowCount == IF ArtCount >= InfoCount THEN ArtCount ELSE InfoCount

ArtCell(i) == IF i <= ArtCount THEN colored_art_lines[i] ELSE <<>>

InfoCell(i) == IF i <= InfoCount THEN sys_info[i] ELSE <<>>

Blanks(n) == [k \in 1..n |-> " "]

\* the spaces of printed row i between its art cell and its info cell
PadOf(i) == Len(stdout[i]) - Len(ArtCell(i)) - Len(InfoCell(i))

\* every art line is at least as long as the spacing, as a decorated line is
LinesCarrySpacing == \A i \in 1..ArtCount : Len(colored_art_lines[i]) >= spacing

\* C1: on an art block of A decorated lines and an info block of B lines,
\* print_stuff ends normally having printed exactly max(A, B) rows, row i made
\* of art cell i, spaces, info cell i, a missing cell being the empty string.
C1_RowCount ==
    (pc \in {"done", "panicked"} /\ LinesCarrySpacing) =>
        /\ pc = "done"
        /\ Len(stdout) = RowCount
        /\ \A i \in 1..Len(stdout) :
             /\ PadOf(i) >= 0
             /\ stdout[i] = ArtCell(i) \o Blanks(PadOf(i)) \o InfoCell(i)

C1_Witness ==
    /\ pc = "done"
    /\ ascii_art # <<>>
    /\ ArtCount = 2
    /\ InfoCount = 3
    /\ Len(stdout) = 3
    /\ sys_info[3] = <<"x">>

\* the largest stored length less the spacing over the art lines, 0 with none
MaxVisible ==
    IF ArtCount = 0 THEN 0
    ELSE CHOOSE m \in {Len(colored_art_lines[i]) - spacing : i \in 1..ArtCount} :
           \A j \in 1..ArtCount : Len(colored_art_lines[j]) - spacing <= m

\* C2: the offset of print_stuff is max_visible + 5 + s, a value fixed by the
\* art lines and the spacing alone, and every row puts its info cell at that
\* one column.
C2_Offset ==
    (pc = "done" /\ LinesCarrySpacing) =>
        /\ offset = MaxVisible + 5 + spacing
        /\ \A i \in 1..Len(stdout) :
             stdout[i] = ArtCell(i) \o Blanks(offset - Len(ArtCell(i))) \o InfoCell(i)

C2_Witness ==
    /\ pc = "done"
    /\ ArtCount = 2
    /\ Len(colored_art_lines[1]) < Len(colored_art_lines[2])
    /\ LinesCarrySpacing
    /\ spacing = 2
    /\ InfoCount = 3
    /\ offset = Len(colored_art_lines[2]) + 5

\* C3: in every printed row the padding is not negative; an art cell no longer
\* than the offset is padded to the offset, a longer one gets no padding and is
\* printed whole, the info cell right after it.
C3_Padding ==
    pc = "done" =>
        \A i \in 1..Len(stdout) :
            /\ PadOf(i) >= 0
            /\ stdout[i] = ArtCell(i) \o Blanks(PadOf(i)) \o InfoCell(i)
            /\ IF Len(ArtCell(i)) <= offset
               THEN Len(ArtCell(i)) + PadOf(i) = offset
               ELSE PadOf(i) = 0 /\ stdout[i] = ArtCell(i) \o InfoCell(i)

C3_Witness ==
    /\ pc = "done"
    /\ \E i \in 1..Len(stdout) : Len(ArtCell(i)) > offset /\ InfoCell(i) # <<>>
    /\ \E i \in 1..Len(stdout) : Len(ArtCell(i)) < offset

RECURSIVE JoinLines(_)
JoinLines(ls) ==
    IF ls = <<>> THEN <<>>
    ELSE IF Len(ls) = 1 THEN ls[1]
    ELSE ls[1] \o <<"\n">> \o JoinLines(Tail(ls))

\* the art text without its final line ending
ArtBody ==
    IF ascii_art # <<>> /\ ascii_art[Len(ascii_art)] = "\n"
    THEN [k \in 1..(Len(ascii_art) - 1) |-> ascii_art[k]] ELSE ascii_art

\* what decorated line i holds between the color code and the reset code
RawOf(i) ==
    LET line == colored_art_lines[i]
        from == spacing + Len(color_code)
    IN  [k \in 1..(Len(line) - from - Len(RESET_CODE)) |-> line[from + k]]

\* C4: color_ascii_art on a non-empty art text yields one decorated line per raw
\* line, in order, each s spaces + color code + raw line + reset code, the raw
\* lines being those of the text, unchanged.
C4_Decoration ==
    (pc \in {"print", "done", "panicked"} /\ ascii_art # <<>>) =>
        /\ ArtCount = Cardinality({k \in 1..Len(ArtBody) : ArtBody[k] = "\n"}) + 1
        /\ \A i \in 1..ArtCount :
             /\ Len(colored_art_lines[i]) =
                    spacing + Len(color_code) + Len(RawOf(i)) + Len(RESET_CODE)
             /\ colored_art_lines[i] =
                    Blanks(spacing) \o color_code \o RawOf(i) \o <<ESC, "[", "0", "m">>
             /\ \A k \in 1..Len(RawOf(i)) : RawOf(i)[k] # "\n"
        /\ JoinLines([i \in 1..ArtCount |-> RawOf(i)]) = ArtBody

C4_Witness ==
    /\ pc = "print"
    /\ ascii_art = <<"a", "\n", "\n", "a">>
    /\ spacing = 255
    /\ color_code # <<>>
    /\ ArtCount = 3
    /\ Len(colored_art_lines[2]) = 255 + Len(color_code) + 4

\* C5: a --config path that cannot be read does not abort the run.
C5_UnreadableConfigDoesNotAbort ==
    ~(pc = "panicked" /\ panic_at = "read_file_trim")

\* C6: a --spacing whose value does not parse as a u8 leaves spacing as it
\* was before the flag, and the run goes on to the next argument.
C6_FailedSpacingKeepsValue ==
    [][ ( /\ pc = "args"
          /\ iter < Len(args)
          /\ args[iter] = SPACING
          /\ ~parse_u8(args[iter + 1]).ok )
        => ( spacing' = spacing /\ pc' = "args" /\ iter' = iter + 2 ) ]_vars

C6_Witness ==
    /\ pc = "args"
    /\ args = <<PROGRAM, SPACING, NUM_OK, SPACING, NUM_BIG>>
    /\ iter = 6
    /\ spacing = 31

\* C7: whatever fact sources fail, a run without help or version flags does
\* not end abnormally.
C7_FailingSourcesDoNotAbort ==
    ~(pc = "panicked" /\ panic_at = "read_meminfo_fields")

HelpAsked == \E i \in DOMAIN args : args[i] \in {HELP_LONG, HELP_SHORT}

VersionAsked == \E i \in DOMAIN args : args[i] \in {VERSION_LONG, VERSION_SHORT}

\* nothing of main past its first branch has run
NothingElseDone ==
    /\ pc \in {"start", "done"}
    /\ reads = {}
    /\ iter = 0
    /\ ascii_art = <<>>
    /\ colored_art_lines = <<>>
    /\ sys_info = <<>>
    /\ panic_at = "none"

\* C8: with -h or --help anywhere in the arguments the run prints the usage
\* text and ends; otherwise with -v or --version anywhere it prints the version
\* and ends; in both nothing is read, parsed, collected or rendered.
C8_HelpVersionOnly ==
    /\ HelpAsked =>
         /\ NothingElseDone
         /\ stdout = IF pc = "start" THEN <<>> ELSE <<help_menu>>
    /\ (~HelpAsked /\ VersionAsked) =>
         /\ NothingElseDone
         /\ stdout = IF pc = "start" THEN <<>> ELSE <<S_RFETCH \o VERSION>>

C8_Witness ==
    /\ pc = "done"
    /\ Len(args) = 5
    /\ args[2] = CONFIG
    /\ args[4] = VERSION_SHORT
    /\ args[5] = HELP_SHORT
    /\ stdout = <<help_menu>>

\* main has decorated the art
HasDecorated ==
    \/ pc \in {"collect", "print"}
    \/ pc \in {"done", "panicked"} /\ "facts" \in reads

\* the distro file main consults
DistroFile == IF distro.etc.exists THEN distro.etc ELSE distro.usr

\* its first ANSI_COLOR value, 0;37 without the file or the key
DistroColor ==
    LET ls == IF DistroFile.opens THEN lines(DistroFile.text) ELSE <<>>
        hits == {k \in 1..Len(ls) : starts_with(ls[k], ANSI_COLOR_KEY)}
        first == CHOOSE k \in hits : \A j \in hits : k <= j
    IN  IF hits = {} THEN <<"0", ";", "3", "7">>
        ELSE trim_matches(SubStr(ls[first], Len(ANSI_COLOR_KEY) + 1, Len(ls[first])), "\"")

\* the values that follow a --color in the arguments
ColorValues == {args[i + 1] : i \in {j \in 2..(Len(args) - 1) : args[j] = COLOR}}

\* C9, as stated: the color of the decoration is the value of a --color of the
\* arguments whenever there is one, and the distro's color or 0;37 otherwise.
C9_ColorAsStated ==
    HasDecorated =>
        IF ColorValues # {}
        THEN \E v \in ColorValues : color_code = <<ESC, "[">> \o v \o <<"m">>
        ELSE color_code = <<ESC, "[">> \o DistroColor \o <<"m">>

\* argument i is read as an option: it is not the value of the --config,
\* --spacing or --color before it
RECURSIVE ReadAsOption(_)
ReadAsOption(i) ==
    \/ i = 2
    \/ i > 2 /\ ReadAsOption(i - 1) /\ args[i - 1] \notin {CONFIG, SPACING, COLOR}
    \/ i > 3 /\ ReadAsOption(i - 2) /\ args[i - 2] \in {CONFIG, SPACING, COLOR}

\* the --color options that have a value
ColorOptions ==
    {i \in 2..(Len(args) - 1) : args[i] = COLOR /\ ReadAsOption(i)}

\* C9, amended: the color of the decoration is the value of the last --color
\* that is read as an option and has a value, and the distro's color or 0;37
\* when there is none.
C9_ColorOfLastOption ==
    HasDecorated =>
        color_code = <<ESC, "[">>
                     \o (IF ColorOptions # {}
                         THEN args[(CHOOSE i \in ColorOptions :
                                      \A j \in ColorOptions : j <= i) + 1]
                         ELSE DistroColor)
                     \o <<"m">>

C9_Witness ==
    /\ pc = "done"
    /\ args = <<PROGRAM, SPACING, COLOR, COLOR, NUM_OK>>
    /\ distro.etc = OS_FULL
    /\ color_code = <<ESC, "[", "3", "1", "m">>

\* C10: in a run of main every decorated line is at least s and at most offset
\* long, so print_stuff neither underflows nor leaves a row without padding to
\* the offset: every info cell starts at column offset.
C10_PipelineAligned ==
    /\ panic_at # "print_stuff"
    /\ HasDecorated => LinesCarrySpacing
    /\ (pc = "done" /\ HasDecorated) =>
         /\ offset >= spacing + 5
         /\ Len(stdout) = RowCount
         /\ \A i \in 1..ArtCount : Len(colored_art_lines[i]) <= offset
         /\ \A i \in 1..Len(stdout) :
              stdout[i] = ArtCell(i) \o Blanks(offset - Len(ArtCell(i))) \o InfoCell(i)

C10_Witness ==
    /\ pc = "done"
    /\ spacing = 255
    /\ ArtCount = 3
    /\ colored_art_lines[2] = Blanks(255) \o color_code \o RESET_CODE
    /\ Len(colored_art_lines[3]) < offset - 5
    /\ Len(stdout) = 13

====
